---------------------------- MODULE Spec2Model ----------------------------
(***************************************************************************)
(* lsmem (sys-utils/lsmem.c): the discovery of the memory blocks, the     *)
(* merge of the blocks into ranges (is_mergeable / read_info), the totals *)
(* (second loop of read_info) and the order of reading and printing in    *)
(* main().                                                                 *)
(*                                                                         *)
(* A directory entry "memory<num>" is represented by <num>; the listing   *)
(* scandir() returns is a sequence of strictly increasing numbers, as     *)
(* sysfs names its blocks.  The attribute files of a block are read when  *)
(* the merge loop reaches the block, so every iteration draws them anew.  *)
(***************************************************************************)
EXTENDS Integers, Sequences, FiniteSets

VARIABLES
    pc,             \* position in main(): which part runs next
    list_all,       \* desc->list_all        (-a)
    want_state,     \* desc->want_state      (STATE column requested)
    want_removable, \* desc->want_removable  (REMOVABLE column requested)
    want_node,      \* desc->want_node       (NODE column requested)
    have_nodes,     \* desc->have_nodes
    dirs,           \* desc->dirs / desc->ndirs: the numbers of the entries
    i,              \* number of entries the merge loop of read_info has done
    stack_node,     \* content of the never initialised blk.node of read_info
    blocks,         \* desc->blocks / desc->nblocks
    block_size,     \* desc->block_size
    mem_online,     \* desc->mem_online
    mem_offline,    \* desc->mem_offline
    table,          \* lines added to desc->table
    stdout,         \* what was printed: table rows and the summary
    input,          \* history: every block read so far, with its state line
    env_fault,      \* history: an attribute was absent or unreadable
    blocks2,        \* range list of a second merge pass over blocks
    k               \* number of ranges the second pass has done

vars == <<pc, list_all, want_state, want_removable, want_node, have_nodes,
          dirs, i, stack_node, blocks, block_size, mem_online, mem_offline,
          table, stdout, input, env_fault, blocks2, k>>

(* ------------------------------ bounds --------------------------------- *)

\* block numbers are 0 .. MaxIndex
MaxIndex == 3
\* at most MaxBlocks entries in one listing
MaxBlocks == 3

(* ----------------------------- constants ------------------------------- *)

MEMORY_STATE_ONLINE == 0
MEMORY_STATE_OFFLINE == 1
MEMORY_STATE_GOING_OFFLINE == 2
MEMORY_STATE_UNKNOWN == 3

\* content of block_size_bytes, as hexadecimal digits: 0x8000000 (128 MiB)
\* and 0x10000000 (256 MiB).  Every quantity of a run stays far below 2^64,
\* so the uint64_t arithmetic of the program never wraps here.
BlockSizeLines == { <<8,0,0,0,0,0,0>>, <<1,0,0,0,0,0,0,0>> }
\* content of memory<num>/state
StateLines == { "online", "offline", "going-offline", "bogus" }
\* content of memory<num>/removable
RemovableValues == { 0, 1 }
\* node<num> entries a block directory may hold; on a system with nodes
\* every block directory read in the merge loop holds one of them
Nodes == { 0, 1 }
\* what the uninitialised blk.node may hold
GarbageNodes == { 0, 7 }

\* an attribute read: the value, or no value (file absent or unreadable)
Reads(values) == { [ok |-> TRUE, value |-> v] : v \in values } \cup
                 { [ok |-> FALSE, value |-> CHOOSE v \in values : TRUE] }

RECURSIVE IncreasingSeqs(_, _)
\* the strictly increasing sequences of numbers in lo .. MaxIndex of length <= n
IncreasingSeqs(lo, n) ==
    IF n = 0 \/ lo > MaxIndex THEN { <<>> }
    ELSE { <<>> } \cup
         UNION { { <<x>> \o s : s \in IncreasingSeqs(x + 1, n - 1) } : x \in lo..MaxIndex }

\* what scandir(..., memory_block_filter, versionsort) can deliver
DirListings == IncreasingSeqs(0, MaxBlocks)

ndirs == Len(dirs)
nblocks == Len(blocks)

(* --------------------------- pure functions ---------------------------- *)

RECURSIVE strtoumax16(_)
\* strtoumax(line, NULL, 16) of a sequence of hexadecimal digits
strtoumax16(line) ==
    IF line = <<>> THEN 0
    ELSE strtoumax16(SubSeq(line, 1, Len(line) - 1)) * 16 + line[Len(line)]

\* the strcmp chain of memory_block_read_attrs
state_of_line(line) ==
    IF line = "offline" THEN MEMORY_STATE_OFFLINE
    ELSE IF line = "online" THEN MEMORY_STATE_ONLINE
    ELSE IF line = "going-offline" THEN MEMORY_STATE_GOING_OFFLINE
    ELSE MEMORY_STATE_UNKNOWN

\* path_read_str / path_read_u64 deliver a value or end the program
path_read_ok(read) == read.ok

\* memory_block_read_attrs: the block of entry "memory<num>"
memory_block_read_attrs(num, rem, line, nd) ==
    [ index     |-> num,
      count     |-> 1,
      removable |-> rem % 2,    \* unsigned int removable:1
      state     |-> state_of_line(line),
      node      |-> IF have_nodes THEN nd ELSE stack_node ]

\* is_mergeable with the state compared whether or not want_state is set
is_mergeable_state_always(blks, blk) ==
    IF Len(blks) = 0 THEN FALSE
    ELSE LET curr == blks[Len(blks)]
         IN IF list_all THEN FALSE
            ELSE IF curr.index + curr.count # blk.index THEN FALSE
            ELSE IF curr.state # blk.state THEN FALSE
            ELSE IF want_removable /\ curr.removable # blk.removable THEN FALSE
            ELSE IF want_node /\ have_nodes /\ curr.node # blk.node THEN FALSE
            ELSE TRUE

\* is_mergeable without the test that blk follows the range directly
is_mergeable_no_adjacency(blks, blk) ==
    IF Len(blks) = 0 THEN FALSE
    ELSE LET curr == blks[Len(blks)]
         IN IF list_all THEN FALSE
            ELSE IF want_state /\ curr.state # blk.state THEN FALSE
            ELSE IF want_removable /\ curr.removable # blk.removable THEN FALSE
            ELSE IF want_node /\ have_nodes /\ curr.node # blk.node THEN FALSE
            ELSE TRUE

\* is_mergeable without the test of desc->list_all
is_mergeable_no_list_all(blks, blk) ==
    IF Len(blks) = 0 THEN FALSE
    ELSE LET curr == blks[Len(blks)]
         IN IF curr.index + curr.count # blk.index THEN FALSE
            ELSE IF want_state /\ curr.state # blk.state THEN FALSE
            ELSE IF want_removable /\ curr.removable # blk.removable THEN FALSE
            ELSE IF want_node /\ have_nodes /\ curr.node # blk.node THEN FALSE
            ELSE TRUE

\* is_mergeable without the comparison of the removable flags
is_mergeable_no_removable(blks, blk) ==
    IF Len(blks) = 0 THEN FALSE
    ELSE LET curr == blks[Len(blks)]
         IN IF list_all THEN FALSE
            ELSE IF curr.index + curr.count # blk.index THEN FALSE
            ELSE IF want_state /\ curr.state # blk.state THEN FALSE
            ELSE IF want_node /\ have_nodes /\ curr.node # blk.node THEN FALSE
            ELSE TRUE

\* is_mergeable with desc->blocks = blks
is_mergeable(blks, blk) ==
    IF Len(blks) = 0 THEN FALSE
    ELSE LET curr == blks[Len(blks)]
         IN IF list_all THEN FALSE
            ELSE IF curr.index + curr.count # blk.index THEN FALSE
            ELSE IF want_state /\ curr.state # blk.state THEN FALSE
            ELSE IF want_removable /\ curr.removable # blk.removable THEN FALSE
            ELSE IF want_node /\ have_nodes /\ curr.node # blk.node THEN FALSE
            ELSE TRUE

\* the loop body with the count++ of a merge left out
merge_iteration_no_count(blks, blk) ==
    IF is_mergeable(blks, blk)
    THEN blks
    ELSE Append(blks, blk)

\* the loop body with the continue after a merge left out
merge_iteration_no_continue(blks, blk) ==
    IF is_mergeable(blks, blk)
    THEN Append([blks EXCEPT ![Len(blks)].count = @ + 1], blk)
    ELSE Append(blks, blk)

\* the loop body with a new range that does not take blk's removable flag
merge_iteration_removable_lost(blks, blk) ==
    IF is_mergeable(blks, blk)
    THEN [blks EXCEPT ![Len(blks)].count = @ + 1]
    ELSE Append(blks, [blk EXCEPT !.removable = 0])

\* the body of the first loop of read_info after the block is read:
\* extend the last range, or append blk as a new range
merge_iteration(blks, blk) ==
    IF is_mergeable(blks, blk)
    THEN [blks EXCEPT ![Len(blks)].count = @ + 1]
    ELSE Append(blks, blk)

RECURSIVE sum_online_going(_, _)
\* the second loop with GoingOffline taken as Online
sum_online_going(blks, size) ==
    IF blks = <<>> THEN 0
    ELSE sum_online_going(Tail(blks), size) +
         (IF Head(blks).state \in {MEMORY_STATE_ONLINE, MEMORY_STATE_GOING_OFFLINE}
          THEN size * Head(blks).count ELSE 0)

RECURSIVE sum_online(_, _)
\* the second loop of read_info: what it adds to desc->mem_online
sum_online(blks, size) ==
    IF blks = <<>> THEN 0
    ELSE sum_online(Tail(blks), size) +
         (IF Head(blks).state = MEMORY_STATE_ONLINE THEN size * Head(blks).count ELSE 0)

RECURSIVE sum_offline(_, _)
\* the second loop of read_info: what it adds to desc->mem_offline
sum_offline(blks, size) ==
    IF blks = <<>> THEN 0
    ELSE sum_offline(Tail(blks), size) +
         (IF Head(blks).state = MEMORY_STATE_ONLINE THEN 0 ELSE size * Head(blks).count)

\* the loop test i < desc->ndirs of the first loop of read_info
merge_loop_pc(n) == IF n < ndirs THEN "merge" ELSE "aggregate"

(* ------------------------------- actions ------------------------------- *)

\* main() up to read_basic_info: the options set the policy, desc is zeroed
Init ==
    /\ pc = "read_basic_info"
    /\ list_all \in BOOLEAN
    /\ want_state \in BOOLEAN
    /\ want_removable \in BOOLEAN
    /\ want_node \in BOOLEAN
    /\ have_nodes = FALSE
    /\ dirs = <<>>
    /\ i = 0
    /\ stack_node = 0
    /\ blocks = <<>>
    /\ block_size = 0
    /\ mem_online = 0
    /\ mem_offline = 0
    /\ table = <<>>
    /\ stdout = [rows |-> 0, summary |-> FALSE]
    /\ input = <<>>
    /\ env_fault = FALSE
    /\ blocks2 = <<>>
    /\ k = 0

\* read_basic_info with the test desc->ndirs < 0 in place of desc->ndirs <= 0
ReadBasicInfo_lt ==
    /\ pc = "read_basic_info"
    /\ \E exists \in BOOLEAN, scanned \in BOOLEAN, listing \in DirListings,
          probe \in Reads(Nodes \cup {-1}) :
         LET n == IF scanned THEN Len(listing) ELSE -1
         IN IF ~exists
            THEN /\ pc' = "fatal"
                 /\ env_fault' = TRUE
                 /\ UNCHANGED <<dirs, have_nodes>>
            ELSE IF n < 0
            THEN /\ pc' = "fatal"
                 /\ env_fault' = TRUE
                 /\ UNCHANGED <<dirs, have_nodes>>
            ELSE IF ~probe.ok
            THEN /\ pc' = "fatal"
                 /\ env_fault' = TRUE
                 /\ dirs' = listing
                 /\ UNCHANGED have_nodes
            ELSE /\ pc' = "read_info"
                 /\ dirs' = listing
                 /\ have_nodes' = (probe.value # -1)
                 /\ env_fault' = (n = 0)
    /\ UNCHANGED <<list_all, want_state, want_removable, want_node, i, stack_node,
                   blocks, block_size, mem_online, mem_offline, table, stdout,
                   input, blocks2, k>>

\* read_basic_info: block_size_bytes must exist, scandir must deliver at
\* least one entry, and the first entry is probed for a node
ReadBasicInfo ==
    /\ pc = "read_basic_info"
    /\ \E exists \in BOOLEAN, scanned \in BOOLEAN, listing \in DirListings,
          probe \in Reads(Nodes \cup {-1}) :
         LET n == IF scanned THEN Len(listing) ELSE -1
         IN IF ~exists
            THEN /\ pc' = "fatal"
                 /\ env_fault' = TRUE
                 /\ UNCHANGED <<dirs, have_nodes>>
            ELSE IF n <= 0
            THEN /\ pc' = "fatal"
                 /\ env_fault' = TRUE
                 /\ UNCHANGED <<dirs, have_nodes>>
            ELSE IF ~probe.ok
            THEN /\ pc' = "fatal"
                 /\ env_fault' = TRUE
                 /\ dirs' = listing
                 /\ UNCHANGED have_nodes
            ELSE /\ pc' = "read_info"
                 /\ dirs' = listing
                 /\ have_nodes' = (probe.value # -1)
                 /\ UNCHANGED env_fault
    /\ UNCHANGED <<list_all, want_state, want_removable, want_node, i, stack_node,
                   blocks, block_size, mem_online, mem_offline, table, stdout,
                   input, blocks2, k>>

\* read_info, before its loops: the local blk comes into being with
\* whatever its memory holds, and the block size is read.  With have_nodes
\* set, memory_block_read_attrs writes blk.node before any use of it, so the
\* old content of the field is drawn only when have_nodes is not set.
ReadBlockSize ==
    /\ pc = "read_info"
    /\ stack_node' \in (IF have_nodes THEN {0} ELSE GarbageNodes)
    /\ \E line \in Reads(BlockSizeLines) :
         IF path_read_ok(line)
         THEN /\ block_size' = strtoumax16(line.value)
              /\ pc' = merge_loop_pc(0)
              /\ UNCHANGED env_fault
         ELSE /\ pc' = "fatal"
              /\ env_fault' = TRUE
              /\ UNCHANGED block_size
    /\ UNCHANGED <<list_all, want_state, want_removable, want_node, have_nodes,
                   dirs, i, blocks, mem_online, mem_offline, table,
                   stdout, input, blocks2, k>>

\* one iteration of the first loop of read_info: read the attributes of
\* entry i, then merge the block or append it
MergeStep ==
    /\ pc = "merge"
    /\ i < ndirs
    /\ \E rem \in Reads(RemovableValues), line \in Reads(StateLines),
          nd \in Reads(Nodes) :
         IF \/ ~path_read_ok(rem)
            \/ ~path_read_ok(line)
            \/ (have_nodes /\ ~nd.ok)
         THEN /\ pc' = "fatal"
              /\ env_fault' = TRUE
              /\ UNCHANGED <<i, blocks, input>>
         ELSE LET blk == memory_block_read_attrs(dirs[i + 1], rem.value,
                                                 line.value, nd.value)
              IN /\ blocks' = merge_iteration(blocks, blk)
                 /\ input' = Append(input, [blk |-> blk, line |-> line.value])
                 /\ i' = i + 1
                 /\ pc' = merge_loop_pc(i + 1)
                 /\ UNCHANGED env_fault
    /\ UNCHANGED <<list_all, want_state, want_removable, want_node, have_nodes,
                   dirs, stack_node, block_size, mem_online, mem_offline, table,
                   stdout, blocks2, k>>

\* the second loop of read_info
Aggregate ==
    /\ pc = "aggregate"
    /\ mem_online' = mem_online + sum_online(blocks, block_size)
    /\ mem_offline' = mem_offline + sum_offline(blocks, block_size)
    /\ pc' = "print"
    /\ UNCHANGED <<list_all, want_state, want_removable, want_node, have_nodes,
                   dirs, i, stack_node, blocks, block_size, table, stdout,
                   input, env_fault, blocks2, k>>

\* main() after read_info: fill_scols_table, scols_print_table, print_summary
PrintOutput ==
    /\ pc = "print"
    /\ table' = blocks
    /\ stdout' = [rows |-> nblocks, summary |-> TRUE]
    /\ pc' = "done"
    /\ UNCHANGED <<list_all, want_state, want_removable, want_node, have_nodes,
                   dirs, i, stack_node, blocks, block_size, mem_online,
                   mem_offline, input, env_fault, blocks2, k>>

Next ==
    \/ ReadBasicInfo
    \/ ReadBlockSize
    \/ MergeStep
    \/ Aggregate
    \/ PrintOutput

Spec == Init /\ [][Next]_vars

\* the merge loop of read_info run once more, over the ranges of the first
\* pass: one iteration takes range k + 1 of blocks as the incoming block
RemergeStep ==
    /\ pc = "done"
    /\ k < nblocks
    /\ blocks2' = merge_iteration(blocks2, blocks[k + 1])
    /\ k' = k + 1
    /\ UNCHANGED <<pc, list_all, want_state, want_removable, want_node,
                   have_nodes, dirs, i, stack_node, blocks, block_size,
                   mem_online, mem_offline, table, stdout, input, env_fault>>

NextRemerge ==
    \/ Next
    \/ RemergeStep

SpecRemerge == Init /\ [][NextRemerge]_vars

(* ------------------------ notions the claims use ----------------------- *)

RECURSIVE SumCount(_)
\* the sum of count over a range list
SumCount(blks) == IF blks = <<>> THEN 0 ELSE Head(blks).count + SumCount(Tail(blks))

\* the block numbers a range list covers
Covered(blks) ==
    UNION { blks[j].index .. (blks[j].index + blks[j].count - 1) : j \in 1..Len(blks) }

\* the blocks read so far, as memory_block_read_attrs delivered them
InputBlocks == [j \in 1..Len(input) |-> input[j].blk]

\* the first loop of read_info has ended
MergeDone == pc \in {"aggregate", "print", "done"}

\* the second loop of read_info has ended
AggregateDone == pc \in {"print", "done"}

\* range j covers input block b
Covers(j, b) ==
    blocks[j].index <= b.index /\ b.index < blocks[j].index + blocks[j].count

\* ranges j and j + 1 touch
Adjacent(j) == blocks[j].index + blocks[j].count = blocks[j + 1].index

RECURSIVE RangeBytes(_, _)
\* sum of count * block_size over the first n ranges whose state is in states
RangeBytes(n, states) ==
    IF n = 0 THEN 0
    ELSE RangeBytes(n - 1, states) +
         (IF blocks[n].state \in states THEN blocks[n].count * block_size ELSE 0)

OfflineStates == {MEMORY_STATE_OFFLINE, MEMORY_STATE_GOING_OFFLINE, MEMORY_STATE_UNKNOWN}

\* number of input blocks whose state is in states
InputBlocksIn(states) == Cardinality({ j \in 1..Len(input) : input[j].blk.state \in states })

(* ------------------------------- claims -------------------------------- *)

\* C1: after every iteration of the merge loop the sum of count over
\* desc->blocks is the number of blocks merged so far, and after the loop it
\* is ndirs: no block is lost or counted twice.
C1_CountSum ==
    /\ SumCount(blocks) = i
    /\ MergeDone => (i = ndirs /\ SumCount(blocks) = ndirs)

\* a run of three blocks that ended with two ranges: one merge, one break
C1_Witness == pc = "done" /\ ndirs = 3 /\ nblocks = 2

\* C2: at every point of the merge loop and after it, the ranges are sorted
\* by strictly increasing index and do not overlap.
C2_SortedDisjoint ==
    \A j \in 1..(nblocks - 1) :
        /\ blocks[j].index < blocks[j + 1].index
        /\ blocks[j].index + blocks[j].count <= blocks[j + 1].index

\* inside the loop, with an entry still to come: two ranges that touch
C2_Witness ==
    /\ pc = "merge"
    /\ i < ndirs
    /\ nblocks = 2
    /\ Adjacent(1)

\* C3: maximality.  Without list_all, two consecutive ranges either do not
\* touch or differ in an attribute whose check is active.
C3_Maximal ==
    ~list_all =>
        \A j \in 1..(nblocks - 1) :
            \/ ~Adjacent(j)
            \/ want_state /\ blocks[j].state # blocks[j + 1].state
            \/ want_removable /\ blocks[j].removable # blocks[j + 1].removable
            \/ want_node /\ have_nodes /\ blocks[j].node # blocks[j + 1].node

\* two touching ranges kept apart by the state check alone, while blocks of
\* different removable flag were merged
C3_Witness ==
    /\ MergeDone
    /\ ~list_all /\ want_state /\ ~want_removable /\ ~want_node
    /\ nblocks = 2
    /\ Adjacent(1)
    /\ blocks[1].count = 2
    /\ blocks[1].state # blocks[2].state

\* C4: strict adjacency.  The block numbers the ranges cover are exactly the
\* block numbers read: a gap in the numbering is never covered.
C4_CoverExact == Covered(blocks) = { input[j].blk.index : j \in 1..Len(input) }

\* blocks 0, 2, 3 with the same attributes: the gap breaks, 2 and 3 merge
C4_Witness ==
    /\ pc = "done"
    /\ ~list_all
    /\ dirs = <<0, 2, 3>>
    /\ nblocks = 2
    /\ blocks[2].count = 2
    /\ blocks[1].state = blocks[2].state
    /\ blocks[1].removable = blocks[2].removable
    /\ blocks[1].node = blocks[2].node

\* C5: with list_all no merge happens: the range list is the list of the
\* blocks read, each with count 1, and after the loop it has ndirs entries.
C5_ListAll ==
    list_all =>
        /\ blocks = InputBlocks
        /\ nblocks = i
        /\ \A j \in 1..nblocks : blocks[j].count = 1
        /\ MergeDone => nblocks = ndirs

\* list_all with three consecutive blocks of identical attributes
C5_Witness ==
    /\ list_all
    /\ pc = "done"
    /\ dirs = <<0, 1, 2>>
    /\ \A j \in 1..2 : /\ input[j].blk.state = input[j + 1].blk.state
                        /\ input[j].blk.removable = input[j + 1].blk.removable
                        /\ input[j].blk.node = input[j + 1].blk.node

\* C6 as stated: every block a range covers has the state, the removable
\* flag and (with have_nodes) the node of the range.
C6_Original ==
    \A j \in 1..nblocks : \A n \in 1..Len(input) :
        Covers(j, input[n].blk) =>
            /\ input[n].blk.state = blocks[j].state
            /\ input[n].blk.removable = blocks[j].removable
            /\ have_nodes => input[n].blk.node = blocks[j].node

\* C6 as amended: every block a range covers agrees with the range in each
\* attribute whose check is active (state with want_state, removable with
\* want_removable, node with want_node and have_nodes), and in every
\* attribute when list_all is set.
C6_ActiveAttributes ==
    \A j \in 1..nblocks : \A n \in 1..Len(input) :
        Covers(j, input[n].blk) =>
            /\ (list_all \/ want_state) => input[n].blk.state = blocks[j].state
            /\ (list_all \/ want_removable) =>
                   input[n].blk.removable = blocks[j].removable
            /\ (list_all \/ (want_node /\ have_nodes)) =>
                   input[n].blk.node = blocks[j].node

\* a range of two blocks under active state and removable checks, next to a
\* touching range that differs in the removable flag only
C6_Witness ==
    /\ MergeDone
    /\ ~list_all /\ want_state /\ want_removable
    /\ nblocks = 2
    /\ blocks[1].count = 2
    /\ Adjacent(1)
    /\ blocks[1].state = blocks[2].state
    /\ blocks[1].removable # blocks[2].removable

\* C7: idempotence.  The merge loop run over the ranges of the first pass
\* merges nothing: after k iterations its list is the first k ranges, and
\* at the end it is the list of the first pass.
C7_Idempotent ==
    /\ k <= nblocks
    /\ blocks2 = SubSeq(blocks, 1, k)

\* the second pass has ended on a list with a merged range and a touching
\* successor
C7_Witness ==
    /\ pc = "done"
    /\ k = nblocks
    /\ nblocks = 2
    /\ blocks[1].count = 2
    /\ Adjacent(1)
    /\ blocks2 = blocks

\* C8: the totals are zero until the merge loop has ended; the aggregation
\* leaves the range list as it is; afterwards mem_online is the sum of
\* count * block_size over the Online ranges, mem_offline the sum over the
\* Offline, GoingOffline and Unknown ranges, and together they are
\* ndirs * block_size.
C8_Aggregator ==
    /\ [](/\ ~AggregateDone => (mem_online = 0 /\ mem_offline = 0)
          /\ AggregateDone =>
                /\ i = ndirs
                /\ mem_online = RangeBytes(nblocks, {MEMORY_STATE_ONLINE})
                /\ mem_offline = RangeBytes(nblocks, OfflineStates)
                /\ mem_online + mem_offline = ndirs * block_size)
    /\ [][pc = "aggregate" => blocks' = blocks]_vars

\* totals of a list with an Online range of two blocks and a GoingOffline
\* range
C8_Witness ==
    /\ AggregateDone
    /\ nblocks = 2
    /\ blocks[1].state = MEMORY_STATE_ONLINE
    /\ blocks[1].count = 2
    /\ blocks[2].state = MEMORY_STATE_GOING_OFFLINE
    /\ mem_online = 2 * block_size
    /\ mem_offline = block_size

\* C9: nothing is put into the table or printed unless no attribute was
\* absent or unreadable and every entry of the listing was read and merged;
\* a fatal condition ends the run at once and is the only way to end it
\* early; a state line that is none of the known three gives Unknown.
C9_NoPartialOutput ==
    /\ (table # <<>> \/ stdout.rows > 0 \/ stdout.summary) =>
           /\ ~env_fault
           /\ ndirs > 0
           /\ i = ndirs
           /\ \A j \in 1..ndirs : input[j].blk.index = dirs[j]
           /\ SumCount(blocks) = ndirs
    /\ env_fault <=> pc = "fatal"
    /\ pc = "done" => (stdout.summary /\ stdout.rows = nblocks)
    /\ \A j \in 1..Len(input) :
           input[j].line \notin {"online", "offline", "going-offline"} =>
               input[j].blk.state = MEMORY_STATE_UNKNOWN

\* a run that read a block with an unknown state line, went on, and then
\* ended on an unreadable attribute of the second block
C9_Witness ==
    /\ pc = "fatal"
    /\ Len(input) = 1
    /\ input[1].line = "bogus"
    /\ stdout = [rows |-> 0, summary |-> FALSE]

\* C10: the totals do not depend on the merge policy: mem_online is
\* block_size times the number of blocks read as Online, mem_offline is
\* block_size times the number of blocks read as anything else.
C10_TotalsPerBlock ==
    AggregateDone =>
        /\ mem_online = block_size * InputBlocksIn({MEMORY_STATE_ONLINE})
        /\ mem_offline = block_size * InputBlocksIn(OfflineStates)

=============================================================================
